---- MODULE Spec2Model ----
(***************************************************************************)
(* Time-tracking service (server.py, models.py): the authorization and     *)
(* time-accounting logic over the relational store.                        *)
(*                                                                         *)
(* The store is the three tables the handlers touch (projects, tasks,      *)
(* time_entries); the user roster is the two accounts seeded at startup.   *)
(* Every handler is one action: the whole request runs in one session and  *)
(* one commit.  The last response (handler, HTTP status, body) is kept in  *)
(* resp so that rejections are visible in the state.                       *)
(*                                                                         *)
(* Time is counted in ticks; TicksPerSec ticks make a second, so a time    *)
(* that is not a multiple of TicksPerSec has a fractional second.          *)
(* Ids are the uuid4 strings the handlers draw; they are numbered here in  *)
(* the order they are drawn, per table, and never drawn twice.             *)
(***************************************************************************)
EXTENDS Integers, Sequences, FiniteSets, TLC

VARIABLES
    fk_checks,      \* whether the database enforces the declared foreign keys
    projects,       \* table projects: id -> row
    tasks,          \* table tasks: id -> row
    time_entries,   \* table time_entries: id -> row
    project_seq,    \* number of project ids drawn so far
    task_seq,       \* number of task ids drawn so far
    entry_seq,      \* number of time entry ids drawn so far
    resp            \* the last response: handler, requesting user, status, body

store == <<projects, tasks, time_entries>>
seqs == <<project_seq, task_seq, entry_seq>>
vars == <<fk_checks, projects, tasks, time_entries, project_seq, task_seq, entry_seq, resp>>

\* None / SQL NULL.  Ids are >= 1 and times are >= 0, so -1 is neither.
NULL == -1

\* user_id = None, among the user ids a request may carry as user_id.
NoUser == "None"

\* notes = None, among the texts a request may carry as notes.
NoNotes == "None"

\* Resolution of a timestamp, in ticks per second.
TicksPerSec == 2

\* timedelta(days=1), in ticks.
TicksPerDay == 86400 * TicksPerSec

\* The two accounts startup_event seeds, and their roles.
Users == {"admin-id", "employee-id"}

role == [u \in Users |-> IF u = "admin-id" THEN "admin" ELSE "employee"]

----------------------------------------------------------------------------
\* Helpers on functions used as tables.

Remove(table, ids) == [k \in (DOMAIN table) \ ids |-> table[k]]

Insert(table, id, row) == [k \in (DOMAIN table) \cup {id} |-> IF k = id THEN row ELSE table[k]]

----------------------------------------------------------------------------
\* Authorization.

\* require_admin: the dependency passes iff the role is admin; else 403.
IsAdmin(current_user) == role[current_user] = "admin"

\* The permission check of update_time_entry and delete_time_entry:
\* true when the request is to be refused with 403.
NotAuthorizedWrongRole(db_entry, current_user) ==
    db_entry.user_id # current_user /\ role[current_user] # "employee"

NotAuthorized(db_entry, current_user) ==
    db_entry.user_id # current_user /\ role[current_user] # "admin"

----------------------------------------------------------------------------
\* Foreign keys declared in models.py, checked by the database at commit when
\* it enforces them.

TaskFkOk(task_row, projs) ==
    fk_checks => task_row.project_id \in DOMAIN projs

EntryFkOk(entry_row, projs, tsks) ==
    fk_checks =>
        /\ entry_row.project_id = NULL \/ entry_row.project_id \in DOMAIN projs
        /\ entry_row.task_id = NULL \/ entry_row.task_id \in DOMAIN tsks

----------------------------------------------------------------------------
\* Responses.

Response(op, user, status, body) ==
    [op |-> op, user |-> user, status |-> status, body |-> body]

\* An HTTPException raised before any write, or a failed commit: the session
\* is closed without committing, so the tables keep their rows.
Reject(op, user, status) ==
    /\ resp' = Response(op, user, status, NULL)
    /\ UNCHANGED <<fk_checks, store, seqs>>

----------------------------------------------------------------------------
\* Projects.

create_project(current_user, project) ==
    IF ~IsAdmin(current_user) THEN Reject("create_project", current_user, 403)
    ELSE LET id == project_seq + 1
             new_project == [name |-> project.name, created_by |-> current_user]
         IN /\ projects' = Insert(projects, id, new_project)
            /\ project_seq' = id
            /\ resp' = Response("create_project", current_user, 200, [id |-> id, name |-> project.name])
            /\ UNCHANGED <<fk_checks, tasks, time_entries, task_seq, entry_seq>>

update_project(current_user, project_id, project) ==
    IF ~IsAdmin(current_user) THEN Reject("update_project", current_user, 403)
    ELSE IF project_id \notin DOMAIN projects THEN Reject("update_project", current_user, 404)
    ELSE /\ projects' = [projects EXCEPT ![project_id].name = project.name]
         /\ resp' = Response("update_project", current_user, 200, [id |-> project_id, name |-> project.name])
         /\ UNCHANGED <<fk_checks, tasks, time_entries, seqs>>

\* The tasks Project.tasks deletes with the project (cascade "all, delete-orphan").
CascadedTasksNone(project_id) == {}

CascadedTasks(project_id) == {t \in DOMAIN tasks : tasks[t].project_id = project_id}

\* Project.time_entries and Task.time_entries have no delete cascade: when the
\* parent row is deleted the unit of work sets the children's foreign key to NULL.
NullifyProjectOnly(entries, project_ids, task_ids) ==
    [e \in DOMAIN entries |->
        [entries[e] EXCEPT
            !.project_id = IF @ \in project_ids THEN NULL ELSE @]]

Nullify(entries, project_ids, task_ids) ==
    [e \in DOMAIN entries |->
        [entries[e] EXCEPT
            !.project_id = IF @ \in project_ids THEN NULL ELSE @,
            !.task_id = IF @ \in task_ids THEN NULL ELSE @]]

delete_project(current_user, project_id) ==
    IF ~IsAdmin(current_user) THEN Reject("delete_project", current_user, 403)
    ELSE IF project_id \notin DOMAIN projects THEN Reject("delete_project", current_user, 404)
    ELSE LET gone == CascadedTasks(project_id)
         IN /\ projects' = Remove(projects, {project_id})
            /\ tasks' = Remove(tasks, gone)
            /\ time_entries' = Nullify(time_entries, {project_id}, gone)
            /\ resp' = Response("delete_project", current_user, 200, project_id)
            /\ UNCHANGED <<fk_checks, seqs>>

----------------------------------------------------------------------------
\* Tasks.

create_task(current_user, task) ==
    IF ~IsAdmin(current_user) THEN Reject("create_task", current_user, 403)
    ELSE LET id == task_seq + 1
             new_task == [name |-> task.name, project_id |-> task.project_id]
         IN IF ~TaskFkOk(new_task, projects) THEN Reject("create_task", current_user, 500)
            ELSE /\ tasks' = Insert(tasks, id, new_task)
                 /\ task_seq' = id
                 /\ resp' = Response("create_task", current_user, 200, [id |-> id, project_id |-> task.project_id])
                 /\ UNCHANGED <<fk_checks, projects, time_entries, project_seq, entry_seq>>

update_task(current_user, task_id, task) ==
    IF ~IsAdmin(current_user) THEN Reject("update_task", current_user, 403)
    ELSE IF task_id \notin DOMAIN tasks THEN Reject("update_task", current_user, 404)
    ELSE LET new_task == [name |-> task.name, project_id |-> task.project_id]
         IN IF ~TaskFkOk(new_task, projects) THEN Reject("update_task", current_user, 500)
            ELSE /\ tasks' = [tasks EXCEPT ![task_id] = new_task]
                 /\ resp' = Response("update_task", current_user, 200, [id |-> task_id, project_id |-> task.project_id])
                 /\ UNCHANGED <<fk_checks, projects, time_entries, seqs>>

delete_task_any_user(current_user, task_id) ==
    IF task_id \notin DOMAIN tasks THEN Reject("delete_task", current_user, 404)
    ELSE /\ tasks' = Remove(tasks, {task_id})
         /\ time_entries' = Nullify(time_entries, {}, {task_id})
         /\ resp' = Response("delete_task", current_user, 200, task_id)
         /\ UNCHANGED <<fk_checks, projects, seqs>>

delete_task(current_user, task_id) ==
    IF ~IsAdmin(current_user) THEN Reject("delete_task", current_user, 403)
    ELSE IF task_id \notin DOMAIN tasks THEN Reject("delete_task", current_user, 404)
    ELSE /\ tasks' = Remove(tasks, {task_id})
         /\ time_entries' = Nullify(time_entries, {}, {task_id})
         /\ resp' = Response("delete_task", current_user, 200, task_id)
         /\ UNCHANGED <<fk_checks, projects, seqs>>

----------------------------------------------------------------------------
\* Time entries.

\* int((end_time - start_time).total_seconds()): the difference in seconds,
\* its fraction cut off towards zero.
int_total_seconds_rounded(start_time, end_time) ==
    LET d == end_time - start_time
    IN IF d >= 0 THEN (2 * d + TicksPerSec) \div (2 * TicksPerSec)
       ELSE -((2 * (-d) + TicksPerSec) \div (2 * TicksPerSec))

int_total_seconds(start_time, end_time) ==
    LET d == end_time - start_time
    IN IF d >= 0 THEN d \div TicksPerSec ELSE -((-d) \div TicksPerSec)

\* The test that raises 400 "End time must be after start time".
InvalidIntervalNegativeOnly(duration) == duration < 0

InvalidInterval(duration) == duration <= 0

\* start_time.date(): the calendar day, as a day number.
date_of(t) == t \div TicksPerDay

create_manual_time_entry(current_user, entry) ==
    LET duration == int_total_seconds(entry.start_time, entry.end_time)
    IN IF InvalidInterval(duration) THEN Reject("create_manual_time_entry", current_user, 400)
       ELSE LET id == entry_seq + 1
                new_entry == [user_id |-> current_user,
                              project_id |-> entry.project_id,
                              task_id |-> entry.task_id,
                              start_time |-> entry.start_time,
                              end_time |-> entry.end_time,
                              duration |-> duration,
                              entry_type |-> "manual",
                              notes |-> entry.notes,
                              date |-> date_of(entry.start_time)]
            IN IF ~EntryFkOk(new_entry, projects, tasks)
               THEN Reject("create_manual_time_entry", current_user, 500)
               ELSE /\ time_entries' = Insert(time_entries, id, new_entry)
                    /\ entry_seq' = id
                    /\ resp' = Response("create_manual_time_entry", current_user, 200,
                                        [id |-> id, duration |-> duration])
                    /\ UNCHANGED <<fk_checks, projects, tasks, project_seq, task_seq>>

update_time_entry_writes_first(current_user, entry_id, entry) ==
    IF entry_id \notin DOMAIN time_entries THEN Reject("update_time_entry", current_user, 404)
    ELSE IF NotAuthorized(time_entries[entry_id], current_user)
    THEN Reject("update_time_entry", current_user, 403)
    ELSE LET duration == int_total_seconds(entry.start_time, entry.end_time)
             db_entry == [time_entries[entry_id] EXCEPT
                             !.project_id = entry.project_id,
                             !.task_id = entry.task_id,
                             !.notes = entry.notes]
         IN IF ~EntryFkOk(db_entry, projects, tasks)
            THEN Reject("update_time_entry", current_user, 500)
            ELSE IF InvalidInterval(duration)
            THEN /\ time_entries' = [time_entries EXCEPT ![entry_id] = db_entry]
                 /\ resp' = Response("update_time_entry", current_user, 400, NULL)
                 /\ UNCHANGED <<fk_checks, projects, tasks, seqs>>
            ELSE /\ time_entries' = [time_entries EXCEPT ![entry_id] =
                                        [db_entry EXCEPT
                                            !.start_time = entry.start_time,
                                            !.end_time = entry.end_time,
                                            !.duration = duration,
                                            !.date = date_of(entry.start_time)]]
                 /\ resp' = Response("update_time_entry", current_user, 200,
                                     [id |-> entry_id, duration |-> duration])
                 /\ UNCHANGED <<fk_checks, projects, tasks, seqs>>

update_time_entry(current_user, entry_id, entry) ==
    IF entry_id \notin DOMAIN time_entries THEN Reject("update_time_entry", current_user, 404)
    ELSE IF NotAuthorized(time_entries[entry_id], current_user)
    THEN Reject("update_time_entry", current_user, 403)
    ELSE LET duration == int_total_seconds(entry.start_time, entry.end_time)
         IN IF InvalidInterval(duration) THEN Reject("update_time_entry", current_user, 400)
            ELSE LET db_entry == [time_entries[entry_id] EXCEPT
                                     !.project_id = entry.project_id,
                                     !.task_id = entry.task_id,
                                     !.start_time = entry.start_time,
                                     !.end_time = entry.end_time,
                                     !.duration = duration,
                                     !.notes = entry.notes,
                                     !.date = date_of(entry.start_time)]
                 IN IF ~EntryFkOk(db_entry, projects, tasks)
                    THEN Reject("update_time_entry", current_user, 500)
                    ELSE /\ time_entries' = [time_entries EXCEPT ![entry_id] = db_entry]
                         /\ resp' = Response("update_time_entry", current_user, 200,
                                             [id |-> entry_id, duration |-> duration])
                         /\ UNCHANGED <<fk_checks, projects, tasks, seqs>>

delete_time_entry(current_user, entry_id) ==
    IF entry_id \notin DOMAIN time_entries THEN Reject("delete_time_entry", current_user, 404)
    ELSE IF NotAuthorized(time_entries[entry_id], current_user)
    THEN Reject("delete_time_entry", current_user, 403)
    ELSE /\ time_entries' = Remove(time_entries, {entry_id})
         /\ resp' = Response("delete_time_entry", current_user, 200, entry_id)
         /\ UNCHANGED <<fk_checks, projects, tasks, seqs>>

----------------------------------------------------------------------------
\* Queries over time_entries.

\* The owner filter shared by the three read handlers: a non-admin sees the
\* rows whose user_id is their own id.
OwnerFilter(current_user, ids) ==
    IF role[current_user] # "admin"
    THEN {e \in ids : time_entries[e].user_id = current_user}
    ELSE ids

\* The date-range filter shared by the three read handlers; start_date and
\* end_date are the parsed query parameters, NULL when absent.
DateFilter(start_date, end_date, ids) ==
    {e \in ids :
        /\ start_date # NULL => time_entries[e].start_time >= start_date
        /\ end_date # NULL => time_entries[e].start_time < end_date + TicksPerDay}

\* The orders ORDER BY start_time may return the rows in: rows with equal
\* start_time come in any order.
OrderByStartTime(ids) ==
    LET n == Cardinality(ids)
    IN {s \in [1..n -> ids] :
           /\ \A i, j \in 1..n : i # j => s[i] # s[j]
           /\ \A i, j \in 1..n :
                 i < j => time_entries[s[i]].start_time <= time_entries[s[j]].start_time}

Reverse(s) == [i \in 1..Len(s) |-> s[Len(s) + 1 - i]]

EntryResponse(e) ==
    [id |-> e,
     user_id |-> time_entries[e].user_id,
     project_id |-> time_entries[e].project_id,
     task_id |-> time_entries[e].task_id,
     start_time |-> time_entries[e].start_time,
     end_time |-> time_entries[e].end_time,
     duration |-> time_entries[e].duration,
     notes |-> time_entries[e].notes]

get_time_entries(current_user, start_date, end_date) ==
    LET ids == DateFilter(start_date, end_date, OwnerFilter(current_user, DOMAIN time_entries))
    IN \E asc \in OrderByStartTime(ids) :
          /\ resp' = Response("get_time_entries", current_user, 200,
                              [i \in 1..Len(asc) |-> EntryResponse(Reverse(asc)[i])])
          /\ UNCHANGED <<fk_checks, store, seqs>>

\* The rows get_timesheets selects: a non-admin's own rows; for an admin the
\* rows of user_id when it is given, else all rows.
TimesheetOwnerFilterUserIdFirst(current_user, user_id, ids) ==
    IF user_id # NoUser
    THEN {e \in ids : time_entries[e].user_id = user_id}
    ELSE IF role[current_user] # "admin"
    THEN {e \in ids : time_entries[e].user_id = current_user}
    ELSE ids

TimesheetOwnerFilter(current_user, user_id, ids) ==
    IF role[current_user] # "admin"
    THEN {e \in ids : time_entries[e].user_id = current_user}
    ELSE IF user_id # NoUser
    THEN {e \in ids : time_entries[e].user_id = user_id}
    ELSE ids

\* One step of the grouping loop of get_timesheets: timesheets is the dict in
\* insertion order, as a sequence of buckets.
AddToTimesheetsOverwritesTotal(timesheets, e) ==
    LET date_key == date_of(time_entries[e].start_time)
        known == \E k \in 1..Len(timesheets) : timesheets[k].date = date_key
        ts == IF known THEN timesheets
              ELSE Append(timesheets, [date |-> date_key, total_duration |-> 0, entries |-> <<>>])
    IN [k \in 1..Len(ts) |->
          IF ts[k].date = date_key
          THEN [ts[k] EXCEPT !.total_duration = time_entries[e].duration,
                             !.entries = Append(@, EntryResponse(e))]
          ELSE ts[k]]

AddToTimesheets(timesheets, e) ==
    LET date_key == date_of(time_entries[e].start_time)
        known == \E k \in 1..Len(timesheets) : timesheets[k].date = date_key
        ts == IF known THEN timesheets
              ELSE Append(timesheets, [date |-> date_key, total_duration |-> 0, entries |-> <<>>])
    IN [k \in 1..Len(ts) |->
          IF ts[k].date = date_key
          THEN [ts[k] EXCEPT !.total_duration = @ + time_entries[e].duration,
                             !.entries = Append(@, EntryResponse(e))]
          ELSE ts[k]]

RECURSIVE GroupByDate(_, _)
GroupByDate(timesheets, entries) ==
    IF entries = <<>> THEN timesheets
    ELSE GroupByDate(AddToTimesheets(timesheets, Head(entries)), Tail(entries))

get_timesheets(current_user, start_date, end_date, user_id) ==
    LET ids == DateFilter(start_date, end_date,
                          TimesheetOwnerFilter(current_user, user_id, DOMAIN time_entries))
    IN \E entries \in OrderByStartTime(ids) :
          /\ resp' = Response("get_timesheets", current_user, 200, GroupByDate(<<>>, entries))
          /\ UNCHANGED <<fk_checks, store, seqs>>

\* sum(entry.duration for entry in entries)
RECURSIVE SumDuration(_)
SumDuration(ids) ==
    IF ids = {} THEN 0
    ELSE LET e == CHOOSE x \in ids : TRUE
         IN time_entries[e].duration + SumDuration(ids \ {e})

\* The test `if entry.project_id:` of the grouping loop of get_reports.
HasProjectAlways(e) == TRUE

HasProject(e) == time_entries[e].project_id # NULL

\* One step of the grouping loop of get_reports: projects_data is the dict,
\* as a function from project id to its row.
AddToProjectsData(projects_data, e) ==
    IF ~HasProject(e) THEN projects_data
    ELSE LET pid == time_entries[e].project_id
             row == IF pid \in DOMAIN projects_data THEN projects_data[pid]
                    ELSE [project_id |-> pid,
                          project_name |-> IF pid \in DOMAIN projects
                                           THEN projects[pid].name ELSE "Unknown",
                          duration |-> 0,
                          entries_count |-> 0]
         IN Insert(projects_data, pid,
                   [row EXCEPT !.duration = @ + time_entries[e].duration,
                               !.entries_count = @ + 1])

RECURSIVE GroupByProject(_, _)
GroupByProject(projects_data, ids) ==
    IF ids = {} THEN projects_data
    ELSE LET e == CHOOSE x \in ids : TRUE
         IN GroupByProject(AddToProjectsData(projects_data, e), ids \ {e})

\* The body of get_reports; the rows of "projects" are kept as a set, the
\* order of query.all() being unspecified.
Report(ids) ==
    LET projects_data == GroupByProject(<<>>, ids)
    IN [total_duration |-> SumDuration(ids),
        total_entries |-> Cardinality(ids),
        projects |-> {projects_data[p] : p \in DOMAIN projects_data}]

get_reports(current_user, start_date, end_date) ==
    LET ids == DateFilter(start_date, end_date, OwnerFilter(current_user, DOMAIN time_entries))
    IN /\ resp' = Response("get_reports", current_user, 200, Report(ids))
       /\ UNCHANGED <<fk_checks, store, seqs>>

----------------------------------------------------------------------------
\* The state after startup: empty tables, the two seeded accounts.

EmptyTable == [k \in {} |-> NULL]

Init ==
    /\ fk_checks \in BOOLEAN
    /\ projects = EmptyTable
    /\ tasks = EmptyTable
    /\ time_entries = EmptyTable
    /\ project_seq = 0
    /\ task_seq = 0
    /\ entry_seq = 0
    /\ resp = Response("startup", "nobody", 200, NULL)

\* The ids a request may name for a table: the ids drawn so far (of rows that
\* exist or that were deleted) and one id that is never drawn.
KnownIds(seq, max) == (1..seq) \cup {max + 1}

\* The request bodies of the time entry handlers (TimeEntryCreate).
TimeEntryCreate(project_ids, task_ids, starts, ends, notes) ==
    [project_id : project_ids, task_id : task_ids,
     start_time : starts, end_time : ends, notes : notes]

\* True when create_manual_time_entry draws no id for this request, or one
\* is left to draw.
MayCreateEntry(entry, max) ==
    ~InvalidInterval(int_total_seconds(entry.start_time, entry.end_time)) => entry_seq < max

----------------------------------------------------------------------------
\* Runs of the time entry handlers alone, over an empty catalog: requests name
\* no project or a project id that has no row.  Start and end times are whole
\* seconds or half a second off, in either order.

EntriesMaxEntries == 2

EntriesStartTimes == {0, 1}

EntriesEndTimes == {0, 1, 2 * TicksPerSec}

EntriesRequests ==
    TimeEntryCreate({NULL, 1}, {NULL}, EntriesStartTimes, EntriesEndTimes, {"note"})

NextEntries ==
    \/ \E u \in Users, e \in EntriesRequests :
          /\ MayCreateEntry(e, EntriesMaxEntries)
          /\ create_manual_time_entry(u, e)
    \/ \E u \in Users, id \in KnownIds(entry_seq, EntriesMaxEntries), e \in EntriesRequests :
          update_time_entry(u, id, e)
    \/ \E u \in Users, id \in KnownIds(entry_seq, EntriesMaxEntries) :
          delete_time_entry(u, id)

SpecEntries == Init /\ [][NextEntries]_vars

----------------------------------------------------------------------------
\* Runs of the six catalog handlers, called by either user.

CatalogMaxProjects == 1
CatalogMaxTasks == 1

CatalogProjectIds == KnownIds(project_seq, CatalogMaxProjects)

CatalogTaskIds == KnownIds(task_seq, CatalogMaxTasks)

CatalogProjectRequests == [name : {"P", "Q"}]

CatalogTaskRequests == [name : {"T", "U"}, project_id : CatalogProjectIds]

NextCatalog ==
    \/ \E u \in Users, p \in CatalogProjectRequests :
          /\ IsAdmin(u) => project_seq < CatalogMaxProjects
          /\ create_project(u, p)
    \/ \E u \in Users, id \in CatalogProjectIds, p \in CatalogProjectRequests :
          update_project(u, id, p)
    \/ \E u \in Users, id \in CatalogProjectIds : delete_project(u, id)
    \/ \E u \in Users, t \in CatalogTaskRequests :
          /\ IsAdmin(u) => task_seq < CatalogMaxTasks
          /\ create_task(u, t)
    \/ \E u \in Users, id \in CatalogTaskIds, t \in CatalogTaskRequests :
          update_task(u, id, t)
    \/ \E u \in Users, id \in CatalogTaskIds : delete_task(u, id)

SpecCatalog == Init /\ [][NextCatalog]_vars

----------------------------------------------------------------------------
\* Runs of the deletions and what they cascade to: the admin builds a catalog
\* and deletes from it, the employee logs time against it.  Requests name the
\* ids drawn so far, of rows that exist or that were deleted.

CascadeMaxProjects == 2
CascadeMaxTasks == 2
CascadeMaxEntries == 1

CascadeTaskRequests == [name : {"T"}, project_id : 1..project_seq]

CascadeEntryRequests ==
    TimeEntryCreate({NULL} \cup 1..project_seq, {NULL} \cup 1..task_seq,
                    {0}, {TicksPerSec}, {NoNotes})

NextCascade ==
    \/ /\ project_seq < CascadeMaxProjects
       /\ create_project("admin-id", [name |-> "P"])
    \/ \E id \in 1..project_seq : delete_project("admin-id", id)
    \/ \E t \in CascadeTaskRequests :
          /\ task_seq < CascadeMaxTasks
          /\ create_task("admin-id", t)
    \/ \E id \in 1..task_seq : delete_task("admin-id", id)
    \/ \E e \in CascadeEntryRequests :
          /\ MayCreateEntry(e, CascadeMaxEntries)
          /\ create_manual_time_entry("employee-id", e)

SpecCascade == Init /\ [][NextCascade]_vars

----------------------------------------------------------------------------
\* Runs of the three read handlers over entries of both users.

ReadsMaxEntries == 2

ReadsEntryRequests ==
    TimeEntryCreate({NULL}, {NULL}, {0, TicksPerDay}, {TicksPerDay + TicksPerSec}, {NoNotes})

ReadsStartDates == {NULL, TicksPerDay}

ReadsEndDates == {NULL, 0}

ReadsUserIds == {NoUser} \cup Users

NextReads ==
    \/ \E u \in Users, e \in ReadsEntryRequests :
          /\ MayCreateEntry(e, ReadsMaxEntries)
          /\ create_manual_time_entry(u, e)
    \/ \E u \in Users, sd \in ReadsStartDates, ed \in ReadsEndDates :
          get_time_entries(u, sd, ed)
    \/ \E u \in Users, sd \in ReadsStartDates, ed \in ReadsEndDates, f \in ReadsUserIds :
          get_timesheets(u, sd, ed, f)
    \/ \E u \in Users, sd \in ReadsStartDates, ed \in ReadsEndDates :
          get_reports(u, sd, ed)

SpecReads == Init /\ [][NextReads]_vars

----------------------------------------------------------------------------
\* Runs of get_reports over the employee's entries, logged against no
\* project, a stored project, or a project id that has no row.

ReportsMaxProjects == 1
ReportsMaxEntries == 3

ReportsEntryRequests ==
    TimeEntryCreate({NULL} \cup KnownIds(project_seq, ReportsMaxProjects), {NULL},
                    {0, TicksPerDay}, {TicksPerDay + TicksPerSec}, {NoNotes})

NextReports ==
    \/ /\ project_seq < ReportsMaxProjects
       /\ create_project("admin-id", [name |-> "P"])
    \/ \E e \in ReportsEntryRequests :
          /\ MayCreateEntry(e, ReportsMaxEntries)
          /\ create_manual_time_entry("employee-id", e)
    \/ \E u \in Users, sd \in ReadsStartDates, ed \in ReadsEndDates :
          get_reports(u, sd, ed)

SpecReports == Init /\ [][NextReports]_vars

----------------------------------------------------------------------------
\* The owner-or-admin rule, stated on the row as it is before the request.
MayWrite(u, id) == role[u] = "admin" \/ u = time_entries[id].user_id

\* C1: update_time_entry and delete_time_entry on a stored entry by a user who
\* is neither an admin nor the entry's owner answer 403 and leave every table
\* as it was; and whenever one of the two handlers changes or removes a stored
\* entry, the requesting user is an admin or that entry's owner.
C1_OwnerOrAdminWrites ==
    [][resp'.op \in {"update_time_entry", "delete_time_entry"} =>
          LET u == resp'.user
          IN /\ \A id \in DOMAIN time_entries :
                   ~MayWrite(u, id) =>
                      /\ \A e \in EntriesRequests :
                            update_time_entry(u, id, e) =>
                               resp'.status = 403 /\ store' = store
                      /\ delete_time_entry(u, id) =>
                            resp'.status = 403 /\ store' = store
             /\ \A id \in DOMAIN time_entries :
                   (id \notin DOMAIN time_entries' \/ time_entries'[id] # time_entries[id])
                      => MayWrite(u, id)]_vars

\* C1 witness: the employee was refused on an entry owned by the admin, next
\* to a second stored entry.
C1_Witness ==
    /\ resp.op \in {"update_time_entry", "delete_time_entry"}
    /\ resp.status = 403
    /\ resp.user = "employee-id"
    /\ Cardinality(DOMAIN time_entries) = 2
    /\ \E id \in DOMAIN time_entries : time_entries[id].user_id = "admin-id"

Writable(u) == {id \in DOMAIN time_entries : MayWrite(u, id)}

\* C3 as claimed: the interval is accepted exactly when end > start.
C3_AcceptsIffEndAfterStart ==
    [][resp'.op = "create_manual_time_entry" =>
          \A e \in EntriesRequests :
             create_manual_time_entry(resp'.user, e) =>
                (resp'.status # 400 <=> e.end_time > e.start_time)]_vars

\* What C3 as amended says of the response to a validated request e.
C3_Validated(e, id) ==
    LET seconds == (e.end_time - e.start_time) \div TicksPerSec
    IN /\ resp'.status # 400 <=> e.end_time - e.start_time >= TicksPerSec
       /\ resp'.status = 200 =>
             /\ resp'.body.duration = seconds
             /\ resp'.body.id = id
             /\ time_entries'[id].duration = seconds

\* C3 as amended: the interval is accepted exactly when end is at least one
\* whole second after start, and the duration returned and stored is then the
\* whole number of seconds between them; any other interval (end before start,
\* end = start, end less than a second after start) is rejected with 400.
C3_AcceptsIffWholeSecond ==
    [][/\ resp'.op = "create_manual_time_entry" =>
             \A e \in EntriesRequests :
                create_manual_time_entry(resp'.user, e) => C3_Validated(e, entry_seq + 1)
       /\ resp'.op = "update_time_entry" =>
             \A id \in Writable(resp'.user), e \in EntriesRequests :
                update_time_entry(resp'.user, id, e) => C3_Validated(e, id)]_vars

\* C3 witness: a create was accepted whose interval is a fraction of a second
\* short of two seconds.
C3_Witness ==
    /\ resp.op = "create_manual_time_entry"
    /\ resp.status = 200
    /\ time_entries[resp.body.id].end_time - time_entries[resp.body.id].start_time
          = 2 * TicksPerSec - 1

\* C6: a create or an update whose end is not after its start answers 400 (the
\* update when the entry is stored and the user may write it), and a request
\* answered 400 leaves every row of every table, and the ids drawn, as they were.
C6_RejectedIntervalChangesNothing ==
    [][/\ resp'.op = "create_manual_time_entry" =>
             \A e \in EntriesRequests :
                (e.end_time <= e.start_time /\ create_manual_time_entry(resp'.user, e))
                   => resp'.status = 400
       /\ resp'.op = "update_time_entry" =>
             \A id \in Writable(resp'.user), e \in EntriesRequests :
                (e.end_time <= e.start_time /\ update_time_entry(resp'.user, id, e))
                   => resp'.status = 400
       /\ resp'.status = 400 => store' = store /\ seqs' = seqs]_vars

\* C6 witness: an update was rejected for its interval while two entries are
\* stored.
C6_Witness ==
    /\ resp.op = "update_time_entry"
    /\ resp.status = 400
    /\ Cardinality(DOMAIN time_entries) = 2

CatalogWrites ==
    {"create_project", "update_project", "delete_project",
     "create_task", "update_task", "delete_task"}

\* C4: a catalog write requested by a user who is not an admin answers 403 and
\* leaves the rows of projects and tasks (and of time_entries), and the ids
\* drawn, as they were.
C4_NonAdminCatalogWriteRejected ==
    [][(resp'.op \in CatalogWrites /\ role[resp'.user] # "admin") =>
          /\ resp'.status = 403
          /\ projects' = projects
          /\ tasks' = tasks
          /\ time_entries' = time_entries
          /\ seqs' = seqs]_vars

\* C4 witness: the employee was refused a task deletion while a project and
\* a task are stored.
C4_Witness ==
    /\ resp.op = "delete_task"
    /\ resp.user = "employee-id"
    /\ resp.status = 403
    /\ DOMAIN projects # {}
    /\ DOMAIN tasks # {}

\* C9 as claimed: create_task by an admin naming a project id that has no row
\* answers 404 and stores no task.
C9_CreateTaskUnknownProjectNotFound ==
    [][(resp'.op = "create_task" /\ role[resp'.user] = "admin") =>
          \A t \in CatalogTaskRequests :
             (t.project_id \notin DOMAIN projects /\ create_task(resp'.user, t))
                => resp'.status = 404 /\ tasks' = tasks]_vars

\* C7: a successful delete_project(p) leaves no task whose project is p: the
\* tasks that remain are exactly the tasks of the other projects, each as it
\* was, and p has no row.
C7_DeleteProjectCascadesToTasks ==
    [][(resp'.op = "delete_project" /\ resp'.status = 200) =>
          LET p == resp'.body
          IN /\ p \in DOMAIN projects
             /\ p \notin DOMAIN projects'
             /\ \A t \in DOMAIN tasks' : tasks'[t].project_id # p
             /\ DOMAIN tasks' = {t \in DOMAIN tasks : tasks[t].project_id # p}
             /\ \A t \in DOMAIN tasks' : tasks'[t] = tasks[t]]_vars

\* C7 witness: a project was deleted, both task ids were drawn, and one task,
\* of a project that is still stored, remains.
C7_Witness ==
    /\ resp.op = "delete_project"
    /\ resp.status = 200
    /\ task_seq = 2
    /\ \E t \in DOMAIN tasks :
          /\ DOMAIN tasks = {t}
          /\ tasks[t].project_id \in DOMAIN projects

\* C8: a delete_project(p) that does not answer 200 changes no table; one
\* that answers 200 keeps every time entry, sets to NULL each project_id that
\* was p and each task_id that was a task of p, and changes nothing else of the
\* entry, so that no entry names p or a task deleted with it.  While the
\* database enforces the foreign keys, every project and task an entry names
\* has a row.
C8_DeleteProjectNullsEntryReferences ==
    /\ [](fk_checks =>
            \A e \in DOMAIN time_entries :
               /\ time_entries[e].project_id \in {NULL} \cup DOMAIN projects
               /\ time_entries[e].task_id \in {NULL} \cup DOMAIN tasks)
    /\ [][resp'.op = "delete_project" =>
            IF resp'.status # 200 THEN store' = store
            ELSE LET p == resp'.body
                     gone == {t \in DOMAIN tasks : tasks[t].project_id = p}
                 IN /\ DOMAIN time_entries' = DOMAIN time_entries
                    /\ \A e \in DOMAIN time_entries :
                          LET old == time_entries[e]
                              new == time_entries'[e]
                          IN /\ new.project_id = IF old.project_id = p THEN NULL
                                                 ELSE old.project_id
                             /\ new.task_id = IF old.task_id \in gone THEN NULL
                                              ELSE old.task_id
                             /\ new.project_id # p
                             /\ new.task_id \notin gone
                             /\ [new EXCEPT !.project_id = NULL, !.task_id = NULL]
                                   = [old EXCEPT !.project_id = NULL, !.task_id = NULL]]_vars

\* C8 witness: a project was deleted with a task of its own, and the stored
\* entry names neither a project nor a task although every project id and
\* task id drawn was deleted, one of the tasks by the cascade.
C8_Witness ==
    /\ resp.op = "delete_project"
    /\ resp.status = 200
    /\ project_seq = 1
    /\ task_seq = 1
    /\ DOMAIN tasks = {}
    /\ \E e \in DOMAIN time_entries :
          time_entries[e].project_id = NULL /\ time_entries[e].task_id = NULL

\* The entries of user u.
OwnedBy(u) == {e \in DOMAIN time_entries : time_entries[e].user_id = u}

\* C5: what a read handler answers to a user who is not an admin is made of
\* that user's entries alone: every row of get_time_entries and every entry of
\* every bucket of get_timesheets is an entry the user owns, and the body of
\* get_reports is the report of entries the user owns; and for such a user
\* get_timesheets selects the same entries whatever user_id the request names.
C5_NonAdminReadsOwnEntries ==
    /\ (resp.op = "get_time_entries" /\ role[resp.user] # "admin") =>
          \A i \in 1..Len(resp.body) :
             /\ resp.body[i].user_id = resp.user
             /\ resp.body[i].id \in OwnedBy(resp.user)
    /\ (resp.op = "get_timesheets" /\ role[resp.user] # "admin") =>
          \A k \in 1..Len(resp.body) :
             \A i \in 1..Len(resp.body[k].entries) :
                resp.body[k].entries[i].id \in OwnedBy(resp.user)
    /\ (resp.op = "get_reports" /\ role[resp.user] # "admin") =>
          \E sd \in ReadsStartDates, ed \in ReadsEndDates :
             resp.body = Report(DateFilter(sd, ed, OwnedBy(resp.user)))
    /\ \A u \in Users :
          role[u] # "admin" =>
             \A f \in ReadsUserIds :
                /\ TimesheetOwnerFilter(u, f, DOMAIN time_entries) = OwnedBy(u)
                /\ OwnerFilter(u, DOMAIN time_entries) = OwnedBy(u)

\* C5 witness: the employee asked for the timesheets and was answered one
\* bucket with one entry while an entry of the admin is stored.
C5_Witness ==
    /\ resp.op = "get_timesheets"
    /\ resp.user = "employee-id"
    /\ Len(resp.body) = 1
    /\ Len(resp.body[1].entries) = 1
    /\ OwnedBy("admin-id") # {}

\* The sum of the durations of the entries of ids, counted up the ids drawn.
RECURSIVE DurationUpTo(_, _)
DurationUpTo(n, ids) ==
    IF n = 0 THEN 0
    ELSE (IF n \in ids THEN time_entries[n].duration ELSE 0) + DurationUpTo(n - 1, ids)

\* The row C10 expects for project id p over the entries ids.
ExpectedRow(p, ids) ==
    LET of_p == {e \in ids : time_entries[e].project_id = p}
    IN [project_id |-> p,
        project_name |-> IF p \in DOMAIN projects THEN projects[p].name ELSE "Unknown",
        duration |-> DurationUpTo(entry_seq, of_p),
        entries_count |-> Cardinality(of_p)]

C10_WitnessSum ==
    /\ resp.op = "get_reports"
    /\ \E r \in resp.body.projects :
          r.entries_count = 2 /\ r.duration = 86400 + 2

----------------------------------------------------------------------------
\* Runs of get_timesheets over entries of both users that start on two days:
\* at 00:00:00 and 00:00:01 of the first day and at 00:00:00 of the second.

TimesheetsMaxEntries == 3

TimesheetsEntryRequests ==
    TimeEntryCreate({NULL}, {NULL}, {0, TicksPerSec, TicksPerDay},
                    {TicksPerDay + TicksPerSec}, {NoNotes})

TimesheetsStartDates == {NULL, TicksPerSec}

TimesheetsEndDates == {NULL, 0}

NextTimesheets ==
    \/ \E u \in Users, e \in TimesheetsEntryRequests :
          /\ MayCreateEntry(e, TimesheetsMaxEntries)
          /\ create_manual_time_entry(u, e)
    \/ \E u \in Users, sd \in TimesheetsStartDates, ed \in TimesheetsEndDates,
          f \in ReadsUserIds :
          get_timesheets(u, sd, ed, f)

SpecTimesheets == Init /\ [][NextTimesheets]_vars

\* The ids of the entries of a bucket, in the order of the bucket.
BucketIds(bucket) == [i \in 1..Len(bucket.entries) |-> bucket.entries[i].id]

\* What C11 says of the buckets answered for the selected entries ids.
C11_Grouped(body, ids) ==
    LET days == {time_entries[e].start_time \div TicksPerDay : e \in ids}
    IN /\ {body[k].date : k \in 1..Len(body)} = days
       /\ Len(body) = Cardinality(days)
       /\ \A k \in 1..Len(body) :
             LET of_day == {e \in ids : time_entries[e].start_time \div TicksPerDay = body[k].date}
                 in_bucket == BucketIds(body[k])
             IN /\ of_day # {}
                /\ {in_bucket[i] : i \in 1..Len(in_bucket)} = of_day
                /\ Len(in_bucket) = Cardinality(of_day)
                /\ body[k].total_duration = DurationUpTo(entry_seq, of_day)
                /\ \A i, j \in 1..Len(in_bucket) :
                      i < j => /\ body[k].entries[i].start_time <= body[k].entries[j].start_time
                               /\ time_entries[in_bucket[i]].start_time
                                     <= time_entries[in_bucket[j]].start_time

\* C11: get_timesheets answers, for the entries it selects, one bucket per
\* day on which one of them starts and no other bucket; a bucket holds exactly
\* the selected entries that start on its day, each once, in ascending order
\* of start_time, and its total_duration is the sum of their durations.
C11_TimesheetBuckets ==
    resp.op = "get_timesheets" =>
       \E sd \in TimesheetsStartDates, ed \in TimesheetsEndDates, f \in ReadsUserIds :
          C11_Grouped(resp.body,
                      DateFilter(sd, ed,
                         IF role[resp.user] # "admin" THEN OwnedBy(resp.user)
                         ELSE IF f # NoUser THEN OwnedBy(f)
                         ELSE DOMAIN time_entries))

\* C11 witness: the timesheets answered are two buckets, the first with two
\* entries that start at different times of the first day.
C11_Witness ==
    /\ resp.op = "get_timesheets"
    /\ Len(resp.body) = 2
    /\ Len(resp.body[1].entries) = 2
    /\ resp.body[1].entries[1].start_time < resp.body[1].entries[2].start_time
    /\ resp.body[1].total_duration = 2 * 86400 + 1

----------------------------------------------------------------------------
\* Runs of the three read handlers with date ranges, over entries that start
\* at 23:59:59 of the first day and at 00:00:00 of the second. An end_date is
\* the datetime fromisoformat parses: midnight of the first day for a bare
\* date, noon of the first day for one that carries a time of day.

DatesMaxEntries == 2

DatesEntryRequests ==
    TimeEntryCreate({NULL}, {NULL}, {TicksPerDay - TicksPerSec, TicksPerDay},
                    {2 * TicksPerDay}, {NoNotes})

DatesStartDates == {NULL, TicksPerDay}

DatesEndDates == {NULL, 0, TicksPerDay \div 2}

NextDates ==
    \/ \E u \in Users, e \in DatesEntryRequests :
          /\ MayCreateEntry(e, DatesMaxEntries)
          /\ create_manual_time_entry(u, e)
    \/ \E u \in Users, sd \in DatesStartDates, ed \in DatesEndDates :
          get_time_entries(u, sd, ed)
    \/ \E u \in Users, sd \in DatesStartDates, ed \in DatesEndDates,
          f \in ReadsUserIds :
          get_timesheets(u, sd, ed, f)
    \/ \E u \in Users, sd \in DatesStartDates, ed \in DatesEndDates :
          get_reports(u, sd, ed)

SpecDates == Init /\ [][NextDates]_vars

\* The entries of ids in the range C12 states: from startDate up to, and not
\* including, 00:00:00 of the day after the calendar day of endDate.
C12_InRange(sd, ed, ids) ==
    {e \in ids :
        /\ sd # NULL => sd <= time_entries[e].start_time
        /\ ed # NULL => time_entries[e].start_time < ((ed \div TicksPerDay) + 1) * TicksPerDay}

\* The ids of the entries in the buckets of a timesheets answer.
C12_InBuckets(body) ==
    UNION {{body[k].entries[i].id : i \in 1..Len(body[k].entries)} : k \in 1..Len(body)}

\* C12: each of get_time_entries, get_timesheets and get_reports, asked for
\* the range startDate..endDate, selects exactly the entries the caller may
\* see whose start_time is at or after startDate and before 00:00:00 of the
\* day after endDate.
C12_EndDateWholeDay ==
    [][\A sd \in DatesStartDates, ed \in DatesEndDates :
          /\ get_time_entries(resp'.user, sd, ed) =>
                {resp'.body[i].id : i \in 1..Len(resp'.body)}
                   = C12_InRange(sd, ed, OwnerFilter(resp'.user, DOMAIN time_entries))
          /\ \A f \in ReadsUserIds :
                get_timesheets(resp'.user, sd, ed, f) =>
                   C12_InBuckets(resp'.body)
                      = C12_InRange(sd, ed, TimesheetOwnerFilter(resp'.user, f, DOMAIN time_entries))
          /\ get_reports(resp'.user, sd, ed) =>
                resp'.body.total_entries
                   = Cardinality(C12_InRange(sd, ed, OwnerFilter(resp'.user, DOMAIN time_entries)))
      ]_vars

\* C12 for end dates that are bare dates: the same statement with end_date
\* the midnight that starts a calendar day.
C12_BareEndDateWholeDay ==
    [][\A sd \in DatesStartDates, ed \in {d \in DatesEndDates : d = NULL \/ d % TicksPerDay = 0} :
          /\ get_time_entries(resp'.user, sd, ed) =>
                {resp'.body[i].id : i \in 1..Len(resp'.body)}
                   = C12_InRange(sd, ed, OwnerFilter(resp'.user, DOMAIN time_entries))
          /\ \A f \in ReadsUserIds :
                get_timesheets(resp'.user, sd, ed, f) =>
                   C12_InBuckets(resp'.body)
                      = C12_InRange(sd, ed, TimesheetOwnerFilter(resp'.user, f, DOMAIN time_entries))
          /\ get_reports(resp'.user, sd, ed) =>
                resp'.body.total_entries
                   = Cardinality(C12_InRange(sd, ed, OwnerFilter(resp'.user, DOMAIN time_entries)))
      ]_vars

====
